---- MODULE Spec2Model ----
(***************************************************************************)
(* Minesweeper grid engine (src/components.py, class Board) together with  *)
(* the hint key of the presentation layer (src/run.py, Game.run_step).     *)
(*                                                                         *)
(* The board is a flat list of cells addressed by index(col,row); a        *)
(* command is one call of Board.reveal, Board.toggle_flag, Board.get_hint  *)
(* or one press of the hint key.  random.sample and random.choice are      *)
(* nondeterministic choices.                                               *)
(***************************************************************************)
EXTENDS Integers, Sequences, FiniteSets, TLC

\* ------------------------------------------------------------------ bounds
MaxCols == 3
MaxRows == 2
MaxCells == 6
MaxMines == 2
MaxFlags == 1

VARIABLES
    cols,            \* Board.cols
    rows,            \* Board.rows
    num_mines,       \* Board.num_mines (the requested count)
    cells,           \* Board.cells: index -> CellState
    _mines_placed,    \* Board._mines_placed
    revealed_count,  \* Board.revealed_count
    game_over,       \* Board.game_over
    win,             \* Board.win
    anchor,          \* history: (safe_col, safe_row) of the place_mines call, <<>> before
    cmd              \* history: the last command, the path it took, its stack pushes

vars == <<cols, rows, num_mines, cells, _mines_placed, revealed_count,
          game_over, win, anchor, cmd>>

board == <<cols, rows, num_mines, cells, _mines_placed, revealed_count,
           game_over, win>>

\* ------------------------------------------------------------- the board
\* CellState.__init__ defaults
CellState == [is_mine |-> FALSE, is_revealed |-> FALSE, is_flagged |-> FALSE,
              adjacent |-> 0]

\* Python's None (get_hint's "no hint")
None == <<>>

index(col, row) == row * cols + col

is_inbounds(col, row) == 0 <= col /\ col < cols /\ 0 <= row /\ row < rows

deltas == << <<-1, -1>>, <<0, -1>>, <<1, -1>>,
             <<-1, 0>>,             <<1, 0>>,
             <<-1, 1>>,  <<0, 1>>,  <<1, 1>> >>

neighbors(col, row) ==
    SelectSeq([i \in 1..Len(deltas) |-> <<col + deltas[i][1], row + deltas[i][2]>>],
              LAMBDA p : is_inbounds(p[1], p[2]))

SeqToSet(s) == {s[i] : i \in 1..Len(s)}

all_positions == {<<c, r>> : c \in 0..(cols - 1), r \in 0..(rows - 1)}

\* faulty variant: only the clicked cell is kept free of mines
forbidden_clicked_only(safe_col, safe_row) == {<<safe_col, safe_row>>}

\* place_mines, lines 71-72
forbidden(safe_col, safe_row) ==
    {<<safe_col, safe_row>>} \cup SeqToSet(neighbors(safe_col, safe_row))

pool(safe_col, safe_row) ==
    {p \in all_positions : p \notin forbidden(safe_col, safe_row)}

min(a, b) == IF a <= b THEN a ELSE b

\* place_mines, line 75
actual_mines(safe_col, safe_row) ==
    min(num_mines, Cardinality(pool(safe_col, safe_row)))

\* faulty variant: positions drawn with replacement, so some may coincide
sample_with_repeats(safe_col, safe_row) ==
    {s \in SUBSET pool(safe_col, safe_row) :
        /\ Cardinality(s) <= actual_mines(safe_col, safe_row)
        /\ (actual_mines(safe_col, safe_row) > 0 => s # {})}

\* random.sample(pool, actual_mines): every set of actual_mines distinct positions
sample(safe_col, safe_row) ==
    {s \in SUBSET pool(safe_col, safe_row) :
        Cardinality(s) = actual_mines(safe_col, safe_row)}

\* faulty variant: adjacency records only whether some neighbour is a mine
count_adjacent_any(cs, c, r) ==
    IF \E i \in 1..Len(neighbors(c, r)) :
          cs[index(neighbors(c, r)[i][1], neighbors(c, r)[i][2])].is_mine
    THEN 1 ELSE 0

\* place_mines, lines 81-90: the adjacency of one cell of a grid with mines marked
count_adjacent(cs, c, r) ==
    Cardinality({i \in 1..Len(neighbors(c, r)) :
        cs[index(neighbors(c, r)[i][1], neighbors(c, r)[i][2])].is_mine})

\* place_mines with mine_positions the result of random.sample
place_mines(cs, mine_positions) ==
    LET marked == [i \in DOMAIN cs |->
                     IF \E p \in mine_positions : index(p[1], p[2]) = i
                     THEN [cs[i] EXCEPT !.is_mine = TRUE] ELSE cs[i]]
    IN [i \in DOMAIN cs |->
          IF marked[i].is_mine THEN marked[i]
          ELSE [marked[i] EXCEPT
                  !.adjacent = count_adjacent(marked, i % cols, i \div cols)]]

\* faulty variant: a loss shows no other mine
_reveal_all_mines_none(cs) == cs

\* faulty variant: a loss shows the mines and hides everything else
_reveal_all_mines_only(cs) ==
    [i \in DOMAIN cs |-> [cs[i] EXCEPT !.is_revealed = cs[i].is_mine]]

\* Board._reveal_all_mines
_reveal_all_mines(cs) ==
    [i \in DOMAIN cs |->
        IF cs[i].is_mine THEN [cs[i] EXCEPT !.is_revealed = TRUE] ELSE cs[i]]

\* Board._check_win: the new value of win
_check_win(count, over, won) ==
    IF count = cols * rows - num_mines /\ ~over THEN TRUE ELSE won

\* faulty variant: every newly revealed neighbour is expanded, whatever its adjacency
RECURSIVE scan_expanding_all(_, _, _, _, _)
scan_expanding_all(cs, count, stack, nbs, i) ==
    IF i > Len(nbs) THEN [cells |-> cs, revealed_count |-> count, stack |-> stack]
    ELSE LET n_idx  == index(nbs[i][1], nbs[i][2])
             n_cell == cs[n_idx]
         IN IF ~n_cell.is_revealed /\ ~n_cell.is_flagged
            THEN scan_expanding_all([cs EXCEPT ![n_idx].is_revealed = TRUE], count + 1,
                                    Append(stack, nbs[i]), nbs, i + 1)
            ELSE scan_expanding_all(cs, count, stack, nbs, i + 1)

\* faulty variant: a flagged neighbour with adjacency 0 is put on the stack too
RECURSIVE scan_pushing_flagged(_, _, _, _, _)
scan_pushing_flagged(cs, count, stack, nbs, i) ==
    IF i > Len(nbs) THEN [cells |-> cs, revealed_count |-> count, stack |-> stack]
    ELSE LET n_idx  == index(nbs[i][1], nbs[i][2])
             n_cell == cs[n_idx]
         IN IF ~n_cell.is_revealed /\ ~n_cell.is_flagged
            THEN scan_pushing_flagged([cs EXCEPT ![n_idx].is_revealed = TRUE], count + 1,
                      IF n_cell.adjacent = 0 THEN Append(stack, nbs[i]) ELSE stack,
                      nbs, i + 1)
            ELSE scan_pushing_flagged(cs, count,
                      IF ~n_cell.is_revealed /\ n_cell.adjacent = 0
                      THEN Append(stack, nbs[i]) ELSE stack,
                      nbs, i + 1)

\* faulty variant: the flood fill does not stop at flags
RECURSIVE scan_through_flags(_, _, _, _, _)
scan_through_flags(cs, count, stack, nbs, i) ==
    IF i > Len(nbs) THEN [cells |-> cs, revealed_count |-> count, stack |-> stack]
    ELSE LET n_idx  == index(nbs[i][1], nbs[i][2])
             n_cell == cs[n_idx]
         IN IF ~n_cell.is_revealed
            THEN scan_through_flags([cs EXCEPT ![n_idx].is_revealed = TRUE], count + 1,
                      IF n_cell.adjacent = 0 THEN Append(stack, nbs[i]) ELSE stack,
                      nbs, i + 1)
            ELSE scan_through_flags(cs, count, stack, nbs, i + 1)

\* faulty variant: revealed_count grows for every neighbour looked at
RECURSIVE scan_counting_visits(_, _, _, _, _)
scan_counting_visits(cs, count, stack, nbs, i) ==
    IF i > Len(nbs) THEN [cells |-> cs, revealed_count |-> count, stack |-> stack]
    ELSE LET n_idx  == index(nbs[i][1], nbs[i][2])
             n_cell == cs[n_idx]
         IN IF ~n_cell.is_revealed /\ ~n_cell.is_flagged
            THEN scan_counting_visits([cs EXCEPT ![n_idx].is_revealed = TRUE], count + 1,
                      IF n_cell.adjacent = 0 THEN Append(stack, nbs[i]) ELSE stack,
                      nbs, i + 1)
            ELSE scan_counting_visits(cs, count + 1, stack, nbs, i + 1)

\* reveal, lines 121-128: the for loop over the neighbours of the popped cell
RECURSIVE scan(_, _, _, _, _)
scan(cs, count, stack, nbs, i) ==
    IF i > Len(nbs) THEN [cells |-> cs, revealed_count |-> count, stack |-> stack]
    ELSE LET n_idx  == index(nbs[i][1], nbs[i][2])
             n_cell == cs[n_idx]
         IN IF ~n_cell.is_revealed /\ ~n_cell.is_flagged
            THEN scan([cs EXCEPT ![n_idx].is_revealed = TRUE], count + 1,
                      IF n_cell.adjacent = 0 THEN Append(stack, nbs[i]) ELSE stack,
                      nbs, i + 1)
            ELSE scan(cs, count, stack, nbs, i + 1)

\* reveal, lines 119-120: the while loop over the stack
RECURSIVE flood_fill(_, _, _)
\* (pushed: the cells appended to the stack, in order, one per later iteration)
flood_fill(cs, count, stack) ==
    IF stack = <<>> THEN [cells |-> cs, revealed_count |-> count, pushed |-> <<>>]
    ELSE LET curr == stack[Len(stack)]
             rest == SubSeq(stack, 1, Len(stack) - 1)
             r    == scan(cs, count, rest, neighbors(curr[1], curr[2]), 1)
             done == flood_fill(r.cells, r.revealed_count, r.stack)
         IN [done EXCEPT !.pushed = SubSeq(r.stack, Len(rest) + 1, Len(r.stack)) \o @]

\* The board a call leaves unchanged
same == [cells |-> cells, _mines_placed |-> _mines_placed,
         revealed_count |-> revealed_count, game_over |-> game_over,
         win |-> win, anchor |-> anchor, eff |-> FALSE, placed |-> FALSE,
         pushed |-> <<>>]

\* faulty variant: a won game still accepts reveals
reveal_returns_early_ignoring_win(col, row) ==
    \/ ~is_inbounds(col, row) \/ game_over
    \/ cells[index(col, row)].is_revealed
    \/ cells[index(col, row)].is_flagged

\* faulty variant: a flag does not protect the cell
reveal_returns_early_ignoring_flag(col, row) ==
    \/ ~is_inbounds(col, row) \/ game_over \/ win
    \/ cells[index(col, row)].is_revealed

\* reveal, lines 96-103: the early returns
reveal_returns_early(col, row) ==
    \/ ~is_inbounds(col, row) \/ game_over \/ win
    \/ cells[index(col, row)].is_revealed
    \/ cells[index(col, row)].is_flagged

\* faulty variant: place_mines forgets to set _mines_placed
reveal_placing_again(col, row, mine_positions) ==
    IF reveal_returns_early(col, row) THEN same
    ELSE
      LET idx    == index(col, row)
          c1     == IF ~_mines_placed THEN place_mines(cells, mine_positions) ELSE cells
          c2     == [c1 EXCEPT ![idx].is_revealed = TRUE]
          count  == revealed_count + 1
          filled == IF c2[idx].adjacent = 0
                    THEN flood_fill(c2, count, <<<<col, row>>>>)
                    ELSE [cells |-> c2, revealed_count |-> count, pushed |-> <<>>]
      IN IF c2[idx].is_mine
         THEN [cells |-> _reveal_all_mines(c2), _mines_placed |-> _mines_placed,
               revealed_count |-> count, game_over |-> TRUE, win |-> win,
               anchor |-> IF anchor # <<>> THEN anchor ELSE <<col, row>>,
               eff |-> TRUE, placed |-> ~_mines_placed, pushed |-> <<>>]
         ELSE [cells |-> filled.cells, _mines_placed |-> _mines_placed,
               revealed_count |-> filled.revealed_count, game_over |-> game_over,
               win |-> _check_win(filled.revealed_count, game_over, win),
               anchor |-> IF anchor # <<>> THEN anchor ELSE <<col, row>>,
               eff |-> TRUE, placed |-> ~_mines_placed,
               pushed |-> IF c2[idx].adjacent = 0
                          THEN <<<<col, row>>>> \o filled.pushed ELSE <<>>]

\* Board.reveal(col, row), with mine_positions what random.sample returns if asked
reveal(col, row, mine_positions) ==
    IF reveal_returns_early(col, row) THEN same
    ELSE
      LET idx    == index(col, row)
          c1     == IF ~_mines_placed THEN place_mines(cells, mine_positions) ELSE cells
          c2     == [c1 EXCEPT ![idx].is_revealed = TRUE]
          count  == revealed_count + 1
          filled == IF c2[idx].adjacent = 0
                    THEN flood_fill(c2, count, <<<<col, row>>>>)
                    ELSE [cells |-> c2, revealed_count |-> count, pushed |-> <<>>]
      IN IF c2[idx].is_mine
         THEN [cells |-> _reveal_all_mines(c2), _mines_placed |-> TRUE,
               revealed_count |-> count, game_over |-> TRUE, win |-> win,
               anchor |-> IF _mines_placed THEN anchor ELSE <<col, row>>,
               eff |-> TRUE, placed |-> ~_mines_placed, pushed |-> <<>>]
         ELSE [cells |-> filled.cells, _mines_placed |-> TRUE,
               revealed_count |-> filled.revealed_count, game_over |-> game_over,
               win |-> _check_win(filled.revealed_count, game_over, win),
               anchor |-> IF _mines_placed THEN anchor ELSE <<col, row>>,
               eff |-> TRUE, placed |-> ~_mines_placed,
               pushed |-> IF c2[idx].adjacent = 0
                          THEN <<<<col, row>>>> \o filled.pushed ELSE <<>>]

\* the positions random.sample may return for a reveal at (col,row)
samples(col, row) ==
    IF reveal_returns_early(col, row) \/ _mines_placed THEN {{}}
    ELSE sample(col, row)

\* faulty variant: flags still toggle after the game has ended
toggle_flag_after_end(col, row) ==
    IF ~is_inbounds(col, row) THEN cells
    ELSE IF ~cells[index(col, row)].is_revealed
         THEN [cells EXCEPT ![index(col, row)].is_flagged = ~@]
         ELSE cells

\* faulty variant: the flag is set, never cleared
toggle_flag_set_only(col, row) ==
    IF ~is_inbounds(col, row) \/ game_over \/ win THEN cells
    ELSE IF ~cells[index(col, row)].is_revealed
         THEN [cells EXCEPT ![index(col, row)].is_flagged = TRUE]
         ELSE cells

\* Board.toggle_flag: the new cells
toggle_flag(col, row) ==
    IF ~is_inbounds(col, row) \/ game_over \/ win THEN cells
    ELSE IF ~cells[index(col, row)].is_revealed
         THEN [cells EXCEPT ![index(col, row)].is_flagged = ~@]
         ELSE cells

\* Board.flagged_count
flagged_count(cs) == Cardinality({i \in DOMAIN cs : cs[i].is_flagged})

\* faulty variant: flagged cells are never offered as a hint
safe_unrevealed_unflagged ==
    {p \in all_positions :
        /\ ~cells[index(p[1], p[2])].is_mine /\ ~cells[index(p[1], p[2])].is_revealed
        /\ ~cells[index(p[1], p[2])].is_flagged}

\* faulty variant: every hidden cell is offered as a hint, mines included
safe_unrevealed_any_hidden ==
    {p \in all_positions : ~cells[index(p[1], p[2])].is_revealed}

\* Board.get_hint, lines 154-157
safe_unrevealed ==
    {p \in all_positions :
        ~cells[index(p[1], p[2])].is_mine /\ ~cells[index(p[1], p[2])].is_revealed}

\* Board.get_hint: what random.choice may return, or None
get_hint == IF safe_unrevealed # {} THEN safe_unrevealed ELSE {None}

\* ------------------------------------------------------------ the commands
\* coordinates a caller may pass: every cell, and one position beyond each edge
Args == all_positions \cup {<<-1, 0>>, <<cols, 0>>, <<0, -1>>, <<0, rows>>}

Apply(op, arg, r) ==
    /\ cells' = r.cells
    /\ _mines_placed' = r._mines_placed
    /\ revealed_count' = r.revealed_count
    /\ game_over' = r.game_over
    /\ win' = r.win
    /\ anchor' = r.anchor
    /\ cmd' = [op |-> op, arg |-> arg, eff |-> r.eff, placed |-> r.placed,
               pushed |-> r.pushed]
    /\ UNCHANGED <<cols, rows, num_mines>>

Reveal ==
    \E arg \in Args :
      \E mine_positions \in samples(arg[1], arg[2]) :
        Apply("reveal", arg, reveal(arg[1], arg[2], mine_positions))

ToggleFlag ==
    \E arg \in Args :
      /\ flagged_count(toggle_flag(arg[1], arg[2])) <= MaxFlags
      /\ cells' = toggle_flag(arg[1], arg[2])
      /\ cmd' = [op |-> "toggle_flag", arg |-> arg,
                 eff |-> cells' # cells, placed |-> FALSE, pushed |-> <<>>]
      /\ UNCHANGED <<cols, rows, num_mines, _mines_placed, revealed_count,
                     game_over, win, anchor>>

GetHint ==
    \E hint \in get_hint :
      /\ cmd' = [op |-> "get_hint", arg |-> hint, eff |-> FALSE, placed |-> FALSE,
                 pushed |-> <<>>]
      /\ UNCHANGED <<cols, rows, num_mines, cells, _mines_placed, revealed_count,
                     game_over, win, anchor>>

\* run_step, lines 230-232: the hint key
HintKey ==
    \E hint \in get_hint :
      IF hint # None
      THEN \E mine_positions \in samples(hint[1], hint[2]) :
             Apply("hint_key", hint, reveal(hint[1], hint[2], mine_positions))
      ELSE Apply("hint_key", hint, same)

Init ==
    /\ cols \in (0 - 1)..MaxCols
    /\ rows \in (0 - 1)..MaxRows
    /\ Cardinality(all_positions) <= MaxCells
    /\ num_mines \in 0..MaxMines
    /\ cells = [i \in 0..(Cardinality(all_positions) - 1) |-> CellState]
    /\ _mines_placed = FALSE
    /\ revealed_count = 0
    /\ game_over = FALSE
    /\ win = FALSE
    /\ anchor = <<>>
    /\ cmd = [op |-> "new", arg |-> <<>>, eff |-> FALSE, placed |-> FALSE,
              pushed |-> <<>>]

Next == Reveal \/ ToggleFlag \/ GetHint \/ HintKey

Spec == Init /\ [][Next]_vars


\* ------------------------------------------------- vocabulary of the claims
Cell(p) == cells[index(p[1], p[2])]

Mines == {p \in all_positions : Cell(p).is_mine}

Revealed == {p \in all_positions : Cell(p).is_revealed}

Flagged == {p \in all_positions : Cell(p).is_flagged}

Abs(x) == IF x < 0 THEN 0 - x ELSE x

\* the in-bounds cells at king's-move distance 1, stated without the delta table
Nbrs8(p) ==
    {q \in all_positions : q # p /\ Abs(q[1] - p[1]) <= 1 /\ Abs(q[2] - p[2]) <= 1}

RevealOps == {"reveal", "hint_key"}

\* ---------------------------------------------------------------- claims
\* C1: once mines are placed, the anchor of the placing Reveal and each of its
\* in-bounds 8-neighbours is not a mine, in that state and in every later one,
\* and the Reveal that placed the mines has not set game_over.
C1_FirstClickSafe ==
    _mines_placed =>
        /\ anchor # <<>>
        /\ \A p \in {anchor} \cup Nbrs8(anchor) : ~Cell(p).is_mine
        /\ cmd.placed => ~game_over

C1_Witness ==
    /\ cmd.op = "reveal" /\ cmd.placed /\ cmd.arg = anchor
    /\ Cardinality(Mines) = 2
    /\ Cardinality(Nbrs8(anchor)) = 3

\* C2: revealed_count equals the number of cells with is_revealed, in every
\* reachable state, also after a loss.
C2_RevealedCountExact == revealed_count = Cardinality(Revealed)

\* C3: after an effective Reveal that hit no mine, win holds exactly when
\* revealed_count = cols*rows - (number of mines actually placed); and whenever
\* every non-mine cell is revealed and no mine is, win holds.
C3_WinUsesActualMines ==
    /\ (cmd.op \in RevealOps /\ cmd.eff /\ ~game_over) =>
          (win <=> revealed_count = cols * rows - Cardinality(Mines))
    /\ (_mines_placed /\ Revealed = all_positions \ Mines) => win

\* C4: on a 1x1 grid with num_mines = 1 the first Reveal(0,0) places no mine,
\* reveals the cell, does not set game_over and leaves win true.
C4_OneByOneWins ==
    (cols = 1 /\ rows = 1 /\ num_mines = 1
        /\ cmd.op = "reveal" /\ cmd.arg = <<0, 0>> /\ cmd.placed) =>
    (Mines = {} /\ Cell(<<0, 0>>).is_revealed /\ ~game_over /\ win)

\* C6: game_over and win are never both true.
C6_Exclusive == ~(game_over /\ win)

\* a won game in which a mine cell was then clicked
C6_Witness ==
    /\ win /\ cmd.op = "reveal" /\ is_inbounds(cmd.arg[1], cmd.arg[2])
    /\ Cell(cmd.arg).is_mine /\ ~Cell(cmd.arg).is_flagged

\* C10: after placement every non-mine cell's adjacent is the number of its
\* in-bounds 8-neighbours that are mines (a value in 0..8), in every later state.
C10_AdjacentExact ==
    _mines_placed =>
        \A p \in all_positions \ Mines :
            /\ Cell(p).adjacent = Cardinality(Nbrs8(p) \cap Mines)
            /\ Cell(p).adjacent \in 0..8

C10_Witness ==
    /\ _mines_placed /\ ~cmd.placed /\ cmd.eff
    /\ \E p \in all_positions \ Mines : Cell(p).adjacent = 2
    /\ \E p \in all_positions \ Mines : Cell(p).adjacent = 0

\* the guards of Board.reveal, as the claims state them, on the current state
Effective(arg) ==
    /\ arg # None /\ is_inbounds(arg[1], arg[2]) /\ ~game_over /\ ~win
    /\ ~Cell(arg).is_revealed /\ ~Cell(arg).is_flagged

\* C5: game_over holds exactly when some mine cell is revealed; a Reveal whose
\* target is a mine sets game_over, leaves every mine revealed and reveals no
\* non-mine cell; a Reveal whose target is not a mine reveals no mine.
C5_State == game_over <=> (Mines \cap Revealed # {})

C5_Step ==
    (cmd'.op \in RevealOps /\ Effective(cmd'.arg)) =>
        IF cells'[index(cmd'.arg[1], cmd'.arg[2])].is_mine
        THEN /\ game_over'
             /\ Mines' \subseteq Revealed'
             /\ Revealed' \ Mines' = Revealed \ Mines
        ELSE /\ ~game_over'
             /\ Mines' \cap Revealed' = {}

C5_LossIffMineRevealed == [](C5_State) /\ [][C5_Step]_vars

C5_Witness ==
    /\ game_over /\ cmd.op = "reveal" /\ cmd.eff
    /\ Cardinality(Mines) = 2 /\ Mines \subseteq Revealed
    /\ Revealed \ Mines # {} /\ all_positions \ (Revealed \cup Mines) # {}

\* C7: once game_over or win holds, no command changes any cell field,
\* revealed_count, game_over or win (so both flags stay as they are).
C7_Step ==
    (game_over \/ win) =>
        /\ cells' = cells /\ revealed_count' = revealed_count
        /\ game_over' = game_over /\ win' = win /\ _mines_placed' = _mines_placed

C7_Terminal == [][C7_Step]_vars

\* after the end, a flag toggle and a reveal on a hidden cell were both refused
C7_Witness ==
    /\ (game_over \/ win) /\ cmd.op \in {"reveal", "toggle_flag"} /\ ~cmd.eff
    /\ is_inbounds(cmd.arg[1], cmd.arg[2])
    /\ ~Cell(cmd.arg).is_revealed /\ ~Cell(cmd.arg).is_flagged

\* C8: Reveal on out-of-bounds coordinates, on a revealed cell or on a flagged
\* cell changes nothing, and does not place the mines.
C8_Step ==
    (/\ cmd'.op = "reveal"
     /\ \/ ~is_inbounds(cmd'.arg[1], cmd'.arg[2])
        \/ Cell(cmd'.arg).is_revealed
        \/ Cell(cmd'.arg).is_flagged) => board' = board

C8_RevealNoOp == [][C8_Step]_vars

\* the first Reveal was aimed at a flagged cell: the grid is still unplaced
C8_Witness ==
    /\ cmd.op = "reveal" /\ ~cmd.eff /\ ~_mines_placed
    /\ is_inbounds(cmd.arg[1], cmd.arg[2]) /\ Cell(cmd.arg).is_flagged
    /\ revealed_count = 0

\* One round of the flood-fill region: the cells that were hidden and
\* unflagged before the call (in pre) and touch a zero-adjacency cell of R
\* (adjacency read in post, the cells after placement).
Grow(R, pre, post) ==
    R \cup {q \in all_positions :
              /\ ~pre[index(q[1], q[2])].is_revealed
              /\ ~pre[index(q[1], q[2])].is_flagged
              /\ \E p \in R : q \in Nbrs8(p) /\ post[index(p[1], p[2])].adjacent = 0}

RECURSIVE Region(_, _, _)
Region(R, pre, post) ==
    IF Grow(R, pre, post) = R THEN R ELSE Region(Grow(R, pre, post), pre, post)

\* C9: an effective Reveal on a non-mine cell whose adjacency (after
\* placement) is 0 reveals exactly the target and the hidden, unflagged cells
\* reachable from it through zero-adjacency cells; cells with adjacency > 0
\* are revealed and not expanded; no flag changes and no cell outside the
\* region changes (once the mines are placed no is_mine or adjacent changes
\* at all); on a grid constructed with 0 mines, carrying no flag and with no
\* cell revealed yet, the call reveals every cell and sets win.
C9_Step ==
    (/\ cmd'.op = "reveal" /\ Effective(cmd'.arg)
     /\ ~cells'[index(cmd'.arg[1], cmd'.arg[2])].is_mine
     /\ cells'[index(cmd'.arg[1], cmd'.arg[2])].adjacent = 0) =>
        /\ Revealed' \ Revealed = Region({cmd'.arg}, cells, cells')
        /\ Revealed \subseteq Revealed'
        /\ Flagged' = Flagged
        /\ _mines_placed =>
              \A i \in DOMAIN cells :
                 /\ cells'[i].is_mine = cells[i].is_mine
                 /\ cells'[i].adjacent = cells[i].adjacent
        /\ (num_mines = 0 /\ Flagged = {} /\ Revealed = {}) =>
              (Revealed' = all_positions /\ win')

C9_FloodFillRegion == [][C9_Step]_vars

\* a first Reveal whose flood fill stopped at cells with adjacency > 0 and
\* went round a flag
C9_Witness ==
    /\ cmd.op = "reveal" /\ cmd.placed /\ Cell(cmd.arg).adjacent = 0
    /\ Cardinality(Revealed) >= 3
    /\ \E p \in Revealed : Cell(p).adjacent > 0
    /\ \E p \in all_positions \ (Mines \cup Flagged) : ~Cell(p).is_revealed
    /\ Flagged # {} /\ ~game_over
\* C11: in every state get_hint returns None or an in-bounds cell that is
\* neither a mine nor revealed, it returns None exactly when every non-mine
\* cell is revealed, and it changes no state.
C11_State ==
    cmd.op = "get_hint" =>
        /\ cmd.arg = None <=> (all_positions \ Mines) \subseteq Revealed
        /\ cmd.arg # None =>
              /\ is_inbounds(cmd.arg[1], cmd.arg[2])
              /\ ~Cell(cmd.arg).is_mine /\ ~Cell(cmd.arg).is_revealed

C11_Step == cmd'.op = "get_hint" => board' = board

C11_HintIsSafe == [](C11_State) /\ [][C11_Step]_vars

\* a hint asked for after a loss, answered with a flagged hidden cell
C11_Witness ==
    /\ cmd.op = "get_hint" /\ cmd.arg # None /\ game_over
    /\ Cell(cmd.arg).is_flagged /\ Mines # {}
\* C12: no grid object exists with cols <= 0 or rows <= 0 (its construction
\* fails with an invalid-configuration error).
C12_DegenerateRejected == cols > 0 /\ rows > 0
\* C13: before placement no cell is a mine; once the mines are placed the
\* number of mine cells is min(num_mines, cols*rows - |forbidden set|), the
\* forbidden set being the anchor and its in-bounds 8-neighbours.
C13_MineCount ==
    Cardinality(Mines) =
        IF _mines_placed
        THEN LET room == cols * rows - Cardinality({anchor} \cup Nbrs8(anchor))
             IN IF num_mines <= room THEN num_mines ELSE room
        ELSE 0

\* a placement that was clamped, and one mine still went down
C13_Witness ==
    /\ _mines_placed /\ cmd.placed /\ num_mines = 2 /\ Cardinality(Mines) = 1
\* C14: before the game has ended, toggle_flag on an in-bounds hidden cell
\* flips that cell's is_flagged and changes nothing else, and a second
\* toggle_flag on the same cell gives back the cells as they were; on a
\* revealed cell or on out-of-bounds coordinates it changes nothing.
C14_Step ==
    \A a \in {cmd'.arg} :
        cmd'.op = "toggle_flag" =>
            IF is_inbounds(a[1], a[2]) /\ ~Cell(a).is_revealed /\ ~game_over /\ ~win
            THEN /\ \A i \in DOMAIN cells :
                      cells'[i] =
                         IF i = index(a[1], a[2])
                         THEN [is_mine |-> cells[i].is_mine,
                               is_revealed |-> cells[i].is_revealed,
                               is_flagged |-> ~cells[i].is_flagged,
                               adjacent |-> cells[i].adjacent]
                         ELSE cells[i]
                 /\ <<cols, rows, num_mines, _mines_placed, revealed_count,
                      game_over, win>>' =
                    <<cols, rows, num_mines, _mines_placed, revealed_count,
                      game_over, win>>
                 /\ toggle_flag(a[1], a[2])' = cells
            ELSE board' = board

C14_ToggleFlips == [][C14_Step]_vars

\* a flag taken off a hidden cell in the middle of a game
C14_Witness ==
    /\ cmd.op = "toggle_flag" /\ cmd.eff /\ ~Cell(cmd.arg).is_flagged
    /\ _mines_placed /\ revealed_count > 0 /\ ~game_over /\ ~win
\* C15: the flood fill of a Reveal puts every cell on its stack at most once,
\* and only a cell that the same call turns from hidden to revealed, so the
\* stack loop runs at most as many times as the grid has cells (cols*rows on
\* a grid of positive dimensions) and the call terminates.
C15_State ==
    /\ Len(cmd.pushed) <= Cardinality(all_positions)
    /\ (cols > 0 /\ rows > 0) => Len(cmd.pushed) <= cols * rows
    /\ \A i, j \in 1..Len(cmd.pushed) : cmd.pushed[i] = cmd.pushed[j] => i = j

C15_Step == SeqToSet(cmd'.pushed) \subseteq Revealed' \ Revealed

C15_FloodFillBounded == [](C15_State) /\ [][C15_Step]_vars

\* a flood fill of several iterations next to a flagged cell
C15_Witness ==
    /\ cmd.op = "reveal" /\ cmd.eff /\ Len(cmd.pushed) >= 3
    /\ \E p \in Flagged : \E q \in SeqToSet(cmd.pushed) : p \in Nbrs8(q)
\* C16: the mines are placed once, by the first effective Reveal: before it
\* no cell is a mine and _mines_placed is false, from it on _mines_placed
\* stays true, and no later command changes any cell's is_mine or adjacent.
C16_State == (anchor # <<>>) <=> _mines_placed

C16_Step ==
    /\ _mines_placed' =
          (_mines_placed \/ (cmd'.op \in RevealOps /\ Effective(cmd'.arg)))
    /\ anchor # <<>> =>
          /\ anchor' = anchor
          /\ \A i \in DOMAIN cells :
                /\ cells'[i].is_mine = cells[i].is_mine
                /\ cells'[i].adjacent = cells[i].adjacent
    /\ anchor = <<>> => Mines = {}

C16_PlacedOnce == [](C16_State) /\ [][C16_Step]_vars

\* an effective Reveal on a grid whose mines an earlier Reveal had placed
C16_Witness ==
    /\ _mines_placed /\ cmd.op \in RevealOps /\ cmd.eff /\ ~cmd.placed
    /\ Mines # {} /\ cmd.arg # anchor
\* C17: no command turns a cell's is_revealed from true to false, and
\* revealed_count never decreases from one state to the next.
C17_Step ==
    /\ \A i \in DOMAIN cells : cells[i].is_revealed => cells'[i].is_revealed
    /\ revealed_count' >= revealed_count

C17_RevealMonotonic == [][C17_Step]_vars

\* a loss after other cells had been revealed: they are still revealed
C17_Witness ==
    /\ game_over /\ cmd.op \in RevealOps /\ cmd.eff
    /\ Revealed \ Mines # {} /\ revealed_count >= 2
\* C18 as claimed: in every reachable state no cell is both revealed and
\* flagged.
C18_NeverRevealedAndFlagged == Revealed \cap Flagged = {}

\* C18 as amended: a cell is both revealed and flagged only if it is a mine
\* and the game is lost; a flag is only ever set on a hidden cell, and a
\* command reveals flagged cells only when it is the losing Reveal, which
\* reveals the flagged mines and leaves their flags set.
C18_State == \A p \in Revealed \cap Flagged : game_over /\ Cell(p).is_mine

C18_Step ==
    \A i \in DOMAIN cells :
        /\ (cells'[i].is_flagged /\ ~cells[i].is_flagged) => ~cells[i].is_revealed
        /\ (cells'[i].is_revealed /\ ~cells[i].is_revealed /\ cells[i].is_flagged) =>
              /\ game_over' /\ ~game_over
              /\ cells'[i].is_mine
              /\ cells'[i].is_flagged

C18_FlaggedRevealedOnlyOnLoss == [](C18_State) /\ [][C18_Step]_vars

\* a lost game showing a flagged mine, with a flagged-free flood fill before
C18_Witness ==
    /\ game_over /\ cmd.op = "reveal" /\ cmd.eff
    /\ \E p \in Revealed \cap Flagged : Cell(p).is_mine
    /\ Revealed \ Mines # {}
\* C19: while game_over is false revealed_count is the number of revealed
\* cells, and an effective Reveal that does not lose raises revealed_count by
\* exactly the number of cells it turns from hidden to revealed.
C19_State == ~game_over => revealed_count = Cardinality(Revealed)

C19_Step ==
    (cmd'.op \in RevealOps /\ Effective(cmd'.arg) /\ ~game_over') =>
        /\ revealed_count' - revealed_count = Cardinality(Revealed' \ Revealed)
        /\ revealed_count' > revealed_count

C19_CountWhilePlaying == [](C19_State) /\ [][C19_Step]_vars

\* a second flood fill, next to cells an earlier Reveal had revealed
C19_Witness ==
    /\ ~game_over /\ cmd.op = "reveal" /\ cmd.eff /\ ~cmd.placed
    /\ Len(cmd.pushed) >= 1 /\ revealed_count >= 3
    /\ revealed_count = Cardinality(Revealed)
\* C20: the hint key (get_hint, then reveal of the cell it returned) never
\* sets game_over: the hinted cell is not a mine once the call returns, before
\* placement an effective call makes it the anchor, and on a flagged hinted
\* cell the call changes nothing.
C20_Step ==
    cmd'.op = "hint_key" =>
        /\ game_over' = game_over
        /\ cmd'.arg = None => board' = board
        /\ cmd'.arg # None =>
              /\ ~cells'[index(cmd'.arg[1], cmd'.arg[2])].is_mine
              /\ ~Cell(cmd'.arg).is_mine /\ ~Cell(cmd'.arg).is_revealed
              /\ Cell(cmd'.arg).is_flagged => board' = board
              /\ (~_mines_placed /\ Effective(cmd'.arg)) =>
                    (_mines_placed' /\ anchor' = cmd'.arg)

C20_HintKeyNeverLoses == [][C20_Step]_vars

\* the hint key used in the middle of a game with hidden mines
C20_Witness ==
    /\ cmd.op = "hint_key" /\ cmd.eff /\ ~cmd.placed
    /\ Mines # {} /\ Mines \cap Revealed = {} /\ ~game_over
====
